---- MODULE Spec2Model ----
(***************************************************************************)
(* Model of the BucketPolicyMember controller of provider-gcp              *)
(* (pkg/controller/storage/bucketpolicymember.go).                          *)
(*                                                                         *)
(* The external client (bucketPolicyMemberExternal) implements the four    *)
(* verbs Observe / Create / Update / Delete of the managed reconciler.     *)
(* Every verb type-asserts the managed resource, fetches the bucket's IAM  *)
(* policy (GetIamPolicy), runs the membership resolver of package          *)
(* bucketpolicy on the fetched *storage.Policy, and, for Create / Update / *)
(* Delete, writes the mutated policy back (SetIamPolicy) when the resolver *)
(* reports a change.                                                       *)
(*                                                                         *)
(* A verb blocks in its two remote calls, so one invocation is modelled as *)
(* the steps Call -> GetIamPolicy -> SetIamPolicy -> Return; everything    *)
(* the handler does between two remote calls is part of the step of the    *)
(* call that precedes it.  Other writers of the same policy (the remote    *)
(* store is shared) act between the steps.                                 *)
(***************************************************************************)
EXTENDS Integers, Sequences, FiniteSets, TLC

\* ------------------------------------------------------------------ universe

Buckets == {"b1", "b2"}
Roles == {"viewer", "editor"}
Members == {"user:a", "user:b"}
Reconcilers == {"r1", "r2"}

\* Cap of the policy's version counter: no write is accepted past it.
MaxEtag == 2

\* ------------------------------------------------------------------ errors

errNotBucketPolicyMember == "managed resource is not a GCP BucketPolicyMember"
errGetPolicy == "errGetPolicy"
errSetPolicy == "errSetPolicy"

nil == [msg |-> "nil", cause |-> "nil"]

\* errors.New(msg): an error with no cause.
New(msg) == [msg |-> msg, cause |-> "none"]

\* errors.Wrap(err, msg): msg in front of the error it wraps, which stays the cause.
Wrap(cause, msg) == [msg |-> msg, cause |-> cause]

\* ------------------------------------------------------------------ policy documents

\* The bindings of a policy: a map from some roles to member sets.
EmptyBindings == [ro \in {} |-> {}]

\* All bindings maps over Roles and Members, a role with no member included.
AllBindings == UNION {[D -> SUBSET Members] : D \in SUBSET Roles}

\* The bindings the store holds: it keeps no role without a member.
StoredBindings == {b \in AllBindings : \A ro \in DOMAIN b : b[ro] # {}}

\* A nil *storage.Policy: what a failed call returns.
NoDoc == [etag |-> -1, bindings |-> EmptyBindings]

\* ------------------------------------------------------------------ managed resources

BucketPolicyMember(b, ro, m) ==
    [kind |-> "BucketPolicyMember", bucket |-> b, role |-> ro, member |-> m]

\* A managed resource of another kind: the type assertion fails on it.
Other == [kind |-> "Other", bucket |-> "none", role |-> "none", member |-> "none"]

\* The resource each reconciler is set up for.  Buckets, roles and members are
\* interchangeable, so one binding per reconciler stands for all of them; the
\* two reconcilers manage different bindings of the same bucket.
desired(r) ==
    IF r = "r1" THEN BucketPolicyMember("b1", "viewer", "user:a")
    ELSE BucketPolicyMember("b1", "editor", "user:b")

\* ------------------------------------------------------------------ membership resolver

\* bucketpolicy.BindRoleToMember(in, ck): ensure in.member holds in.role.
BindRoleToMember(in, ck) ==
    LET b == ck.bindings
    IN  IF in.role \in DOMAIN b /\ in.member \in b[in.role]
        THEN [doc |-> ck, changed |-> FALSE]
        ELSE [doc |-> [ck EXCEPT !.bindings =
                        [ro \in DOMAIN b \cup {in.role} |->
                            IF ro = in.role
                            THEN (IF ro \in DOMAIN b THEN b[ro] ELSE {}) \cup {in.member}
                            ELSE b[ro]]],
              changed |-> TRUE]

\* UnbindRoleFromMember as it would be without the pruning: the role stays in
\* the bindings with no member.
UnbindKeepsEmptyRole(in, ck) ==
    LET b == ck.bindings
    IN  IF ~(in.role \in DOMAIN b /\ in.member \in b[in.role])
        THEN [doc |-> ck, changed |-> FALSE]
        ELSE [doc |-> [ck EXCEPT !.bindings[in.role] = @ \ {in.member}],
              changed |-> TRUE]

\* bucketpolicy.UnbindRoleFromMember(in, ck): ensure in.member does not hold
\* in.role; a role left without members is dropped.
UnbindRoleFromMember(in, ck) ==
    LET b == ck.bindings
    IN  IF ~(in.role \in DOMAIN b /\ in.member \in b[in.role])
        THEN [doc |-> ck, changed |-> FALSE]
        ELSE LET rest == b[in.role] \ {in.member}
                 dom == IF rest = {} THEN DOMAIN b \ {in.role} ELSE DOMAIN b
             IN  [doc |-> [ck EXCEPT !.bindings =
                            [ro \in dom |-> IF ro = in.role THEN rest ELSE b[ro]]],
                  changed |-> TRUE]

\* ------------------------------------------------------------------ what a verb returns

\* The value a verb hands back to the managed reconciler: the observation
\* (Observe only; the zero value otherwise), the condition Observe sets on the
\* resource's status, and the error.
Returned(exists, upToDate, cond, err) ==
    [exists |-> exists, upToDate |-> upToDate, cond |-> cond, err |-> err]

NoRet == Returned(FALSE, FALSE, "none", nil)

\* cr, ok := mg.(*v1alpha1.BucketPolicyMember)
TypeAssert(obj) == obj.kind = "BucketPolicyMember"

\* NotBucketPolicyMember as it would be had the failed assertion returned the
\* zero value and no error.
NotBucketPolicyMemberNoErr == Returned(FALSE, FALSE, "none", nil)

\* if !ok { return ..., errors.New(errNotBucketPolicyMember) }
NotBucketPolicyMember == Returned(FALSE, FALSE, "none", New(errNotBucketPolicyMember))

\* GetPolicyFailed as it would be had the fetch's error been returned as it
\* came, with no message in front of it.
GetPolicyFailedUnwrapped(cause) == Returned(FALSE, FALSE, "none", New(cause))

\* if err != nil { return ..., errors.Wrap(err, errGetPolicy) } after GetIamPolicy
GetPolicyFailed(cause) == Returned(FALSE, FALSE, "none", Wrap(cause, errGetPolicy))

\* SetPolicyFailed as it would be had the write's failure been replaced by a
\* new error instead of wrapped: the store's answer is lost.
SetPolicyFailedDropsCause(cause) == Returned(FALSE, FALSE, "none", New(errSetPolicy))

\* if ... err != nil { return ..., errors.Wrap(err, errSetPolicy) } after SetIamPolicy
SetPolicyFailed(cause) == Returned(FALSE, FALSE, "none", Wrap(cause, errSetPolicy))

\* Whether the policy holds cr's member in cr's role.
Present(cr, doc) ==
    cr.role \in DOMAIN doc.bindings /\ cr.member \in doc.bindings[cr.role]

\* What a verb's body hands on after a step: where it stands, its local policy
\* and, once it stands at "done", what it returns.
Step(at, doc, r) == [pc |-> at, instance |-> doc, ret |-> r]

\* ObserveFetched as it would be had a NotFound of the fetch been ignored
\* (resource.Ignore(IsNotFound, err)): the binding is reported absent, no error.
ObserveFetchedIgnoresNotFound(cr, doc, outcome) ==
    IF outcome = "NotFound" THEN Step("done", NoDoc, Returned(FALSE, FALSE, "none", nil))
    ELSE IF outcome # "OK" THEN Step("done", NoDoc, GetPolicyFailed(outcome))
    ELSE LET b == BindRoleToMember(cr, doc)
         IN  IF ~b.changed
             THEN Step("done", b.doc, Returned(TRUE, TRUE, "Available", nil))
             ELSE Step("done", b.doc, Returned(FALSE, FALSE, "none", nil))

\* ObserveFetched as it would be had Observe been given Create's tail: on drift
\* it goes on to write the mutated policy.
ObserveFetchedWrites(cr, doc, outcome) ==
    IF outcome # "OK" THEN Step("done", NoDoc, GetPolicyFailed(outcome))
    ELSE LET b == BindRoleToMember(cr, doc)
         IN  IF ~b.changed
             THEN Step("done", b.doc, Returned(TRUE, TRUE, "Available", nil))
             ELSE Step("set", b.doc, NoRet)

\* ObserveFetched as it would be had drift been reported as a resource that
\* exists and is out of date.
ObserveFetchedExistsOnDrift(cr, doc, outcome) ==
    IF outcome # "OK" THEN Step("done", NoDoc, GetPolicyFailed(outcome))
    ELSE LET b == BindRoleToMember(cr, doc)
         IN  IF ~b.changed
             THEN Step("done", b.doc, Returned(TRUE, TRUE, "Available", nil))
             ELSE Step("done", b.doc, Returned(TRUE, FALSE, "none", nil))

\* Observe once GetIamPolicy has answered: a failed fetch is returned wrapped;
\* otherwise the resolver runs on the local copy and what it reports decides
\* the observation.  Nothing is written.
ObserveFetched(cr, doc, outcome) ==
    IF outcome # "OK" THEN Step("done", NoDoc, GetPolicyFailed(outcome))
    ELSE LET b == BindRoleToMember(cr, doc)
         IN  IF ~b.changed
             THEN Step("done", b.doc, Returned(TRUE, TRUE, "Available", nil))
             ELSE Step("done", b.doc, Returned(FALSE, FALSE, "none", nil))

\* CreateFetched as it would be without the early return on !changed: the
\* policy is written back whatever the resolver reports.
CreateFetchedWritesAnyway(cr, doc, outcome) ==
    IF outcome # "OK" THEN Step("done", NoDoc, GetPolicyFailed(outcome))
    ELSE Step("set", BindRoleToMember(cr, doc).doc, NoRet)

\* CreateFetched as it would be without the check of GetIamPolicy's error: the
\* verb goes on with whatever the failed fetch left in instance.
CreateFetchedIgnoresErr(cr, doc, outcome) ==
    LET b == BindRoleToMember(cr, doc)
    IN  IF ~b.changed
        THEN Step("done", b.doc, NoRet)
        ELSE Step("set", b.doc, NoRet)

\* CreateFetched as it would be had it built a policy of its own for the
\* write instead of mutating the fetched one: the fetched etag is lost.
CreateFetchedFreshEtag(cr, doc, outcome) ==
    IF outcome # "OK" THEN Step("done", NoDoc, GetPolicyFailed(outcome))
    ELSE LET b == BindRoleToMember(cr, doc)
         IN  IF ~b.changed
             THEN Step("done", b.doc, NoRet)
             ELSE Step("set", [etag |-> 0, bindings |-> b.doc.bindings], NoRet)

\* CreateFetched as it would be had it sent, under the fetched etag, a policy
\* holding its own binding and nothing of what it fetched.
CreateFetchedOverwrites(cr, doc, outcome) ==
    IF outcome # "OK" THEN Step("done", NoDoc, GetPolicyFailed(outcome))
    ELSE LET b == BindRoleToMember(cr, doc)
         IN  IF ~b.changed
             THEN Step("done", b.doc, NoRet)
             ELSE Step("set", BindRoleToMember(cr, [doc EXCEPT !.bindings = EmptyBindings]).doc,
                       NoRet)

\* CreateFetched as it would be had the test of changed been inverted: it
\* returns when the resolver added the member and writes when it did not.
CreateFetchedInvertedChanged(cr, doc, outcome) ==
    IF outcome # "OK" THEN Step("done", NoDoc, GetPolicyFailed(outcome))
    ELSE LET b == BindRoleToMember(cr, doc)
         IN  IF b.changed
             THEN Step("done", b.doc, NoRet)
             ELSE Step("set", b.doc, NoRet)

\* Create once GetIamPolicy has answered: a failed fetch is returned wrapped;
\* the verb returns when the resolver changed nothing, and goes on to
\* SetIamPolicy with the mutated policy otherwise.
CreateFetched(cr, doc, outcome) ==
    IF outcome # "OK" THEN Step("done", NoDoc, GetPolicyFailed(outcome))
    ELSE LET b == BindRoleToMember(cr, doc)
         IN  IF ~b.changed
             THEN Step("done", b.doc, NoRet)
             ELSE Step("set", b.doc, NoRet)

\* DeleteFetched as it would be had the write been left out: the verb returns
\* once the resolver has run on the local copy.
DeleteFetchedSkipsWrite(cr, doc, outcome) ==
    IF outcome # "OK" THEN Step("done", NoDoc, GetPolicyFailed(outcome))
    ELSE Step("done", UnbindRoleFromMember(cr, doc).doc, NoRet)

\* DeleteFetched as it would be without the early return on !changed.
DeleteFetchedWritesAnyway(cr, doc, outcome) ==
    IF outcome # "OK" THEN Step("done", NoDoc, GetPolicyFailed(outcome))
    ELSE Step("set", UnbindRoleFromMember(cr, doc).doc, NoRet)

\* DeleteFetched as it would be had it been copied from Create with the
\* resolver call left as it was: it binds instead of unbinding.
DeleteFetchedBinds(cr, doc, outcome) ==
    IF outcome # "OK" THEN Step("done", NoDoc, GetPolicyFailed(outcome))
    ELSE LET b == BindRoleToMember(cr, doc)
         IN  IF ~b.changed
             THEN Step("done", b.doc, NoRet)
             ELSE Step("set", b.doc, NoRet)

\* Delete once GetIamPolicy has answered.
DeleteFetched(cr, doc, outcome) ==
    IF outcome # "OK" THEN Step("done", NoDoc, GetPolicyFailed(outcome))
    ELSE LET b == UnbindRoleFromMember(cr, doc)
         IN  IF ~b.changed
             THEN Step("done", b.doc, NoRet)
             ELSE Step("set", b.doc, NoRet)

\* CreateWritten as it would be had SetIamPolicy's error been dropped.
CreateWrittenSwallowsErr(outcome) == NoRet

\* Create and Delete once SetIamPolicy has answered.
CreateWritten(outcome) == IF outcome # "OK" THEN SetPolicyFailed(outcome) ELSE NoRet

\* DeleteWritten as it would be had SetIamPolicy's error been dropped.
DeleteWrittenSwallowsErr(outcome) == NoRet

DeleteWritten(outcome) == IF outcome # "OK" THEN SetPolicyFailed(outcome) ELSE NoRet

\* A remote call as the invocation's record keeps it: the policy is the one a
\* fetch returned (NoDoc when it failed) or the one a write sent.
\* BucketOf as it would be had the calls named the bucket of some other
\* resource's spec.
BucketOfAnother(cr) == CHOOSE b \in Buckets : b # cr.bucket

\* gcp.StringValue(cr.Spec.ForProvider.Bucket): the bucket every remote call of
\* a verb names.
BucketOf(cr) == cr.bucket

RemoteCall(op, bucket, doc, outcome) ==
    [op |-> op, bucket |-> bucket, doc |-> doc, outcome |-> outcome]

\* Create as a whole, from the managed resource and the store's answers: the
\* remote calls it issues and what it returns.  doc is the policy the fetch
\* returns (NoDoc when it fails).
Create(obj, getOutcome, doc, setOutcome) ==
    IF ~TypeAssert(obj) THEN [calls |-> << >>, ret |-> NotBucketPolicyMember]
    ELSE LET h == CreateFetched(obj, doc, getOutcome)
             get == RemoteCall("GetIamPolicy", BucketOf(obj), doc, getOutcome)
             set == RemoteCall("SetIamPolicy", BucketOf(obj), h.instance, setOutcome)
         IN  IF h.pc = "done"
             THEN [calls |-> <<get>>, ret |-> h.ret]
             ELSE [calls |-> <<get, set>>, ret |-> CreateWritten(setOutcome)]

\* Update: _, err := e.Create(ctx, mg); return managed.ExternalUpdate{}, err
\* The body that runs for a verb, and what Update makes of Create's result.
Body(v) == IF v = "Update" THEN "Create" ELSE v

\* Update as it would be had Create's error been dropped.
UpdateSwallowsErr(c) == Returned(FALSE, FALSE, "none", nil)

Update(c) == Returned(FALSE, FALSE, "none", c.err)

\* What verb v returns when its body returned c.
Result(v, c) == IF v = "Update" THEN Update(c) ELSE c

Fetched(v, cr, doc, outcome) ==
    CASE Body(v) = "Observe" -> ObserveFetched(cr, doc, outcome)
      [] Body(v) = "Create" -> CreateFetched(cr, doc, outcome)
      [] Body(v) = "Delete" -> DeleteFetched(cr, doc, outcome)

\* Written as it would be had the verbs taken a rejected etag for a write that
\* need not be reported.
WrittenIgnoresConflict(v, outcome) ==
    IF outcome = "VersionConflict" THEN NoRet
    ELSE IF Body(v) = "Delete" THEN DeleteWritten(outcome) ELSE CreateWritten(outcome)

Written(v, outcome) ==
    IF Body(v) = "Delete" THEN DeleteWritten(outcome) ELSE CreateWritten(outcome)

\* ------------------------------------------------------------------ state

VARIABLES
    remote,     \* the store: each bucket's policy, its etag and its bindings
    pc,         \* per reconciler: "idle", "get", "set" or "done"
    verb,       \* the verb being run ("none" when idle)
    mg,         \* the managed resource the verb was called with
    instance,   \* the verb's local *storage.Policy (NoDoc before the fetch)
    calls,      \* the remote calls the invocation has issued, in order
    ret,        \* what the invocation returned (at "done")
    last        \* what the reconciler's previous corrective verb did

vars == <<remote, pc, verb, mg, instance, calls, ret, last>>

Verbs == {"Observe", "Create", "Update", "Delete"}
GetOutcomes == {"OK", "NotFound", "PermissionDenied", "RemoteUnavailable"}
SetOutcomes == {"OK", "VersionConflict", "PermissionDenied", "RemoteUnavailable"}

\* The reconcilers that run in Spec.
MainReconcilers == {"r1"}

\* Nothing is remembered of an earlier verb.  lost is the etag of the policy
\* the store rejected with VersionConflict in the reconciler's latest corrective
\* verb, -1 when it rejected none.
NoLast == [verb |-> "none", wrote |-> FALSE, before |-> EmptyBindings, lost |-> -1]

Init ==
    /\ remote \in [Buckets -> {[etag |-> 0, bindings |-> b] : b \in StoredBindings}]
    /\ pc = [r \in Reconcilers |-> "idle"]
    /\ verb = [r \in Reconcilers |-> "none"]
    /\ mg = [r \in Reconcilers |-> Other]
    /\ instance = [r \in Reconcilers |-> NoDoc]
    /\ calls = [r \in Reconcilers |-> << >>]
    /\ ret = [r \in Reconcilers |-> NoRet]
    /\ last = [r \in Reconcilers |-> NoLast]

\* The managed reconciler calls verb v of reconciler r with managed resource obj.
\* A resource of the wrong kind ends the verb at once.
Call(r, v, obj) ==
    /\ pc[r] = "idle"
    /\ verb' = [verb EXCEPT ![r] = v]
    /\ mg' = [mg EXCEPT ![r] = obj]
    /\ IF ~TypeAssert(obj)
       THEN /\ pc' = [pc EXCEPT ![r] = "done"]
            /\ ret' = [ret EXCEPT ![r] = Result(v, NotBucketPolicyMember)]
       ELSE /\ pc' = [pc EXCEPT ![r] = "get"]
            /\ ret' = [ret EXCEPT ![r] = NoRet]
    /\ UNCHANGED <<remote, instance, calls, last>>

\* e.bucketpolicy.GetIamPolicy(bucket)...Do() answers with outcome, and the
\* verb runs on to its return or to its SetIamPolicy call.
GetIamPolicy(r, outcome) ==
    /\ pc[r] = "get"
    /\ LET bucket == BucketOf(mg[r])
           doc == IF outcome = "OK" THEN remote[bucket] ELSE NoDoc
           h == Fetched(verb[r], mg[r], doc, outcome)
       IN  /\ calls' = [calls EXCEPT ![r] =
                            Append(@, RemoteCall("GetIamPolicy", bucket, doc, outcome))]
           /\ pc' = [pc EXCEPT ![r] = h.pc]
           /\ instance' = [instance EXCEPT ![r] = h.instance]
           /\ ret' = [ret EXCEPT ![r] = Result(verb[r], h.ret)]
    /\ UNCHANGED <<remote, verb, mg, last>>

\* The store's answer to a write of doc to bucket: it accepts a document that
\* carries the etag it holds, and rejects any other with VersionConflict; it
\* may refuse or be unreachable whatever the etag.
StoreAnswers(bucket, doc) ==
    {"PermissionDenied", "RemoteUnavailable"}
    \cup (IF doc.etag = remote[bucket].etag
          THEN (IF remote[bucket].etag < MaxEtag THEN {"OK"} ELSE {})
          ELSE {"VersionConflict"})

\* The store after an accepted write: the bindings it was sent, under a new etag.
Stored(bucket, bindings) ==
    [remote EXCEPT ![bucket] = [etag |-> @.etag + 1, bindings |-> bindings]]

\* What the reconcilers remember once somebody other than r has written the
\* bucket's policy: those set up for that bucket remember nothing but a
\* rejected etag.
Forget(r, bucket) ==
    [q \in Reconcilers |->
        IF q # r /\ desired(q).bucket = bucket
        THEN [NoLast EXCEPT !.lost = last[q].lost]
        ELSE last[q]]

\* e.bucketpolicy.SetIamPolicy(bucket, instance)...Do() answers with outcome,
\* and the verb returns.
SetIamPolicy(r, outcome) ==
    /\ pc[r] = "set"
    /\ LET bucket == BucketOf(mg[r])
       IN  /\ outcome \in StoreAnswers(bucket, instance[r])
           /\ calls' = [calls EXCEPT ![r] =
                            Append(@, RemoteCall("SetIamPolicy", bucket, instance[r], outcome))]
           /\ remote' = IF outcome = "OK"
                        THEN Stored(bucket, instance[r].bindings)
                        ELSE remote
           /\ last' = IF outcome = "OK" THEN Forget(r, bucket) ELSE last
           /\ ret' = [ret EXCEPT ![r] = Result(verb[r], Written(verb[r], outcome))]
    /\ pc' = [pc EXCEPT ![r] = "done"]
    /\ UNCHANGED <<verb, mg, instance>>

\* What a finished corrective verb leaves behind for the next one, for as long
\* as nobody else writes the bucket's policy: which body ran, whether it wrote,
\* and the bindings it had fetched.  A failed verb leaves nothing but the etag
\* of the policy the store rejected as stale, and Observe leaves what was there.
Summary(r) ==
    IF verb[r] = "Observe" THEN last[r]
    ELSE IF ret[r].err # nil
         THEN IF Len(calls[r]) = 2 /\ calls[r][2].outcome = "VersionConflict"
              THEN [NoLast EXCEPT !.lost = calls[r][2].doc.etag]
              ELSE NoLast
    ELSE [verb |-> Body(verb[r]), wrote |-> Len(calls[r]) = 2,
          before |-> calls[r][1].doc.bindings, lost |-> -1]

\* The verb's return reaches the managed reconciler; its locals are gone.
Return(r) ==
    /\ pc[r] = "done"
    /\ last' = [last EXCEPT ![r] = Summary(r)]
    /\ pc' = [pc EXCEPT ![r] = "idle"]
    /\ verb' = [verb EXCEPT ![r] = "none"]
    /\ mg' = [mg EXCEPT ![r] = Other]
    /\ instance' = [instance EXCEPT ![r] = NoDoc]
    /\ calls' = [calls EXCEPT ![r] = << >>]
    /\ ret' = [ret EXCEPT ![r] = NoRet]
    /\ UNCHANGED remote

\* Another writer of the bucket's policy replaces its bindings.  A verb's return
\* takes no time: no write falls between a verb's last step and its return.
ExternalWrite(bucket, bindings) ==
    /\ \A r \in Reconcilers : pc[r] # "done"
    /\ remote[bucket].etag < MaxEtag
    /\ remote' = Stored(bucket, bindings)
    /\ last' = Forget("none", bucket)
    /\ UNCHANGED <<pc, verb, mg, instance, calls, ret>>

Next ==
    \/ \E r \in MainReconcilers, v \in Verbs : \E obj \in {desired(r), Other} : Call(r, v, obj)
    \/ \E r \in MainReconcilers, o \in GetOutcomes : GetIamPolicy(r, o)
    \/ \E r \in MainReconcilers, o \in SetOutcomes : SetIamPolicy(r, o)
    \/ \E r \in MainReconcilers : Return(r)
    \/ \E b \in Buckets, nb \in StoredBindings : ExternalWrite(b, nb)

Spec == Init /\ [][Next]_vars

\* Two reconcilers, set up for different bindings of the same bucket, run
\* Create and Delete side by side; nobody else writes the policies.  The other
\* bucket holds a policy of its own.
RaceVerbs == {"Create", "Delete"}

InitRace ==
    /\ remote \in {[b \in Buckets |->
                       [etag |-> 0,
                        bindings |-> IF b = "b1" THEN nb ELSE [viewer |-> {"user:b"}]]] :
                   nb \in StoredBindings}
    /\ pc = [r \in Reconcilers |-> "idle"]
    /\ verb = [r \in Reconcilers |-> "none"]
    /\ mg = [r \in Reconcilers |-> Other]
    /\ instance = [r \in Reconcilers |-> NoDoc]
    /\ calls = [r \in Reconcilers |-> << >>]
    /\ ret = [r \in Reconcilers |-> NoRet]
    /\ last = [r \in Reconcilers |-> NoLast]

NextRace ==
    \/ \E r \in Reconcilers, v \in RaceVerbs : Call(r, v, desired(r))
    \/ \E r \in Reconcilers, o \in GetOutcomes : GetIamPolicy(r, o)
    \/ \E r \in Reconcilers, o \in SetOutcomes : SetIamPolicy(r, o)
    \/ \E r \in Reconcilers : Return(r)

SpecRace == InitRace /\ [][NextRace]_vars

\* The control loop that drives a reconciler: every cycle starts with Observe;
\* when Observe returns no error and reports that the resource does not exist,
\* the loop goes on to the corrective verb, and in every other case the cycle
\* ends.  Other writers write the bucket's policy for as long as an etag beyond
\* theirs is left, and then stop.
LoopReconcilers == MainReconcilers

InitLoop == InitRace

\* Observe has returned and has reported drift.
Drift(r) ==
    /\ pc[r] = "done" /\ verb[r] = "Observe"
    /\ ret[r].err = nil /\ ~ret[r].exists

\* A cycle starts.
LoopObserve(r) == Call(r, "Observe", desired(r))

\* Observe has returned and has reported that the resource exists.
Exists(r) ==
    /\ pc[r] = "done" /\ verb[r] = "Observe"
    /\ ret[r].err = nil /\ ret[r].exists

\* Observe's return reaches the loop, which calls corrective verb v at once.
LoopCorrect(r, v) ==
    /\ pc[r] = "done" /\ verb[r] = "Observe"
    /\ last' = [last EXCEPT ![r] = Summary(r)]
    /\ pc' = [pc EXCEPT ![r] = "get"]
    /\ verb' = [verb EXCEPT ![r] = v]
    /\ mg' = [mg EXCEPT ![r] = desired(r)]
    /\ instance' = [instance EXCEPT ![r] = NoDoc]
    /\ calls' = [calls EXCEPT ![r] = << >>]
    /\ ret' = [ret EXCEPT ![r] = NoRet]
    /\ UNCHANGED remote

\* The cycle ends with the return of a verb that calls for no correction.
LoopReturn(r) == ~Drift(r) /\ Return(r)

\* Another writer writes while an etag beyond its own is left.
LoopExternalWrite(bucket, bindings) ==
    /\ remote[bucket].etag + 1 < MaxEtag
    /\ ExternalWrite(bucket, bindings)

\* The steps of the remote calls and of the other writers, whatever the loop.
LoopRemote ==
    \/ \E r \in LoopReconcilers, o \in GetOutcomes : GetIamPolicy(r, o)
    \/ \E r \in LoopReconcilers, o \in SetOutcomes : SetIamPolicy(r, o)
    \/ \E nb \in StoredBindings : LoopExternalWrite("b1", nb)

\* The loop starts cycle after cycle, every remote call is answered, and a
\* remote call that can succeed again and again does succeed, in every verb.
LoopFairness(r) ==
    /\ WF_vars(LoopObserve(r))
    /\ WF_vars(\E o \in GetOutcomes : GetIamPolicy(r, o))
    /\ WF_vars(\E o \in SetOutcomes : SetIamPolicy(r, o))
    /\ \A v \in Verbs : SF_vars(GetIamPolicy(r, "OK") /\ verb[r] = v)
    /\ SF_vars(SetIamPolicy(r, "OK"))

\* The loop of a resource that is to exist: drift is corrected with Create.
NextLoop ==
    \/ \E r \in LoopReconcilers : LoopObserve(r)
    \/ \E r \in LoopReconcilers : Drift(r) /\ LoopCorrect(r, "Create")
    \/ \E r \in LoopReconcilers : LoopReturn(r)
    \/ LoopRemote

SpecLoop ==
    /\ InitLoop /\ [][NextLoop]_vars
    /\ \A r \in LoopReconcilers :
           /\ LoopFairness(r)
           /\ WF_vars(Drift(r) /\ LoopCorrect(r, "Create"))
           /\ WF_vars(LoopReturn(r))

\* The loop of a resource that is to go: for as long as Observe reports that it
\* exists, the loop calls Delete.
DeleteLoopReturn(r) == ~Exists(r) /\ Return(r)

NextDeleteLoop ==
    \/ \E r \in LoopReconcilers : LoopObserve(r)
    \/ \E r \in LoopReconcilers : Exists(r) /\ LoopCorrect(r, "Delete")
    \/ \E r \in LoopReconcilers : DeleteLoopReturn(r)
    \/ LoopRemote

SpecDeleteLoop ==
    /\ InitLoop /\ [][NextDeleteLoop]_vars
    /\ \A r \in LoopReconcilers :
           /\ LoopFairness(r)
           /\ WF_vars(Exists(r) /\ LoopCorrect(r, "Delete"))
           /\ WF_vars(DeleteLoopReturn(r))

\* ------------------------------------------------------------------ properties

\* The invocation of r has fetched the policy successfully.
FetchedOK(r) ==
    /\ Len(calls[r]) >= 1
    /\ calls[r][1].op = "GetIamPolicy"
    /\ calls[r][1].outcome = "OK"

\* The SetIamPolicy calls the invocation of r has issued.
SetCalls(r) == {i \in DOMAIN calls[r] : calls[r][i].op = "SetIamPolicy"}

\* C1. No-op write avoidance: when the fetched policy already holds the member
\* in the role, Create (and Update) returns straight after the fetch, with no
\* error and without having issued any SetIamPolicy.
NoOpWriteAvoidance ==
    \A r \in Reconcilers :
        (Body(verb[r]) = "Create" /\ FetchedOK(r) /\ Present(mg[r], calls[r][1].doc))
            => /\ pc[r] = "done"
               /\ SetCalls(r) = {}
               /\ Len(calls[r]) = 1
               /\ ret[r].err = nil

NoOpWriteAvoidanceWitness ==
    \E r \in Reconcilers :
        /\ verb[r] = "Create" /\ pc[r] = "done"
        /\ FetchedOK(r) /\ Present(mg[r], calls[r][1].doc)

\* C2. Ordering and token: a SetIamPolicy is only ever the second remote call
\* of an invocation, after a successful GetIamPolicy of the same bucket in that
\* invocation, and the policy it sends carries the etag that fetch returned.
\* An invocation starts with no policy and no call of an earlier one: until it
\* has fetched, its instance is nil.
TokenOrdering ==
    \A r \in Reconcilers :
        /\ pc[r] \in {"idle", "get"} => (instance[r] = NoDoc /\ calls[r] = << >>)
        /\ pc[r] = "set"
              => /\ Len(calls[r]) = 1 /\ FetchedOK(r)
                 /\ instance[r].etag = calls[r][1].doc.etag
        /\ \A i \in SetCalls(r) :
              /\ i = 2 /\ FetchedOK(r)
              /\ calls[r][i].bucket = calls[r][1].bucket
              /\ calls[r][i].doc.etag = calls[r][1].doc.etag

TokenOrderingWitness ==
    \E r \in Reconcilers :
        /\ pc[r] = "done" /\ verb[r] = "Delete"
        /\ Len(calls[r]) = 2 /\ calls[r][2].op = "SetIamPolicy"
        /\ calls[r][2].outcome = "OK"

\* C3. Observe never writes: no step of an Observe invocation changes the
\* store, brings the verb to a SetIamPolicy call, or leaves a SetIamPolicy
\* among its calls, whatever the outcome (up to date, drift, failed fetch,
\* wrong kind of resource).
ObserveNeverWrites ==
    [][\A r \in Reconcilers :
          (verb'[r] = "Observe" /\ pc'[r] # pc[r])
              => /\ remote' = remote
                 /\ pc'[r] # "set"
                 /\ \A i \in DOMAIN calls'[r] : calls'[r][i].op # "SetIamPolicy"]_vars

\* Observe has returned drift: the resolver changed the local copy of the policy.
ObserveNeverWritesWitness ==
    \E r \in Reconcilers :
        /\ verb[r] = "Observe" /\ pc[r] = "done" /\ FetchedOK(r)
        /\ ~Present(mg[r], calls[r][1].doc)
        /\ instance[r] # calls[r][1].doc
        /\ remote[mg[r].bucket] = calls[r][1].doc

\* C4. Observe classification: after a successful fetch Observe returns no
\* error; it reports exists and upToDate when the fetched policy holds the
\* member in the role, and does not report exists otherwise.
ObserveClassification ==
    \A r \in Reconcilers :
        (verb[r] = "Observe" /\ pc[r] = "done" /\ FetchedOK(r))
            => /\ ret[r].err = nil
               /\ IF Present(mg[r], calls[r][1].doc)
                  THEN ret[r].exists /\ ret[r].upToDate
                  ELSE ~ret[r].exists

ObserveClassificationWitness ==
    \E r \in Reconcilers :
        /\ verb[r] = "Observe" /\ pc[r] = "done" /\ FetchedOK(r)
        /\ ~Present(mg[r], calls[r][1].doc)
        /\ ~ret[r].exists

\* C5. Conflict surfacing: when the store answers the verb's SetIamPolicy with
\* VersionConflict, the verb returns an error, that error differs from the one
\* it returns for every other failure of the write, and the write was issued
\* once.
ConflictSurfacing ==
    \A r \in Reconcilers :
        (pc[r] = "done" /\ Len(calls[r]) = 2 /\ calls[r][2].outcome = "VersionConflict")
            => /\ ret[r].err # nil
               /\ \A o \in SetOutcomes \ {"OK", "VersionConflict"} :
                      ret[r].err # Result(verb[r], Written(verb[r], o)).err
               /\ SetCalls(r) = {2}

ConflictSurfacingWitness ==
    \E r \in Reconcilers :
        /\ pc[r] = "done" /\ verb[r] = "Update"
        /\ Len(calls[r]) = 2 /\ calls[r][2].outcome = "VersionConflict"

\* C6 as claimed. NotFound handling: when the fetch fails with NotFound,
\* Observe reports the binding absent (exists = false) and returns no error.
NotFoundReportsAbsent ==
    \A r \in Reconcilers :
        (verb[r] = "Observe" /\ pc[r] = "done" /\ Len(calls[r]) = 1
            /\ calls[r][1].outcome = "NotFound")
            => (ret[r].err = nil /\ ~ret[r].exists)

\* C6 as amended. When the fetch fails with NotFound, Observe returns the
\* failure wrapped with errGetPolicy, as for every other failure of the fetch,
\* together with the empty observation, and issues no other call.
NotFoundIsReturned ==
    \A r \in Reconcilers :
        (verb[r] = "Observe" /\ pc[r] = "done" /\ Len(calls[r]) >= 1
            /\ calls[r][1].outcome = "NotFound")
            => /\ ret[r].err = Wrap("NotFound", errGetPolicy)
               /\ ~ret[r].exists /\ ~ret[r].upToDate
               /\ Len(calls[r]) = 1

NotFoundIsReturnedWitness ==
    \E r \in Reconcilers :
        /\ verb[r] = "Observe" /\ pc[r] = "done" /\ Len(calls[r]) = 1
        /\ calls[r][1].outcome = "NotFound"
        /\ ret[r].err # nil

\* Every policy document, a role with no member included, and every binding.
AllDocs == {[etag |-> 0, bindings |-> b] : b \in AllBindings}

AllPairs == {BucketPolicyMember("b1", ro, m) : ro \in Roles, m \in Members}

\* The bindings without the roles that have no member.
Prune(b) == [ro \in {x \in DOMAIN b : b[x] # {}} |-> b[ro]]

\* Each resolver applied to its own result returns that policy, unchanged.
ResolverIdempotent ==
    \A d \in AllDocs, in \in AllPairs :
        LET p == BindRoleToMember(in, d)
            a == UnbindRoleFromMember(in, d)
        IN  /\ BindRoleToMember(in, p.doc) = [doc |-> p.doc, changed |-> FALSE]
            /\ UnbindRoleFromMember(in, a.doc) = [doc |-> a.doc, changed |-> FALSE]

\* C7. Idempotence: when the reconciler's previous corrective verb succeeded
\* and nobody has written the bucket's policy since, the same verb, once it has
\* fetched, returns with no error and no SetIamPolicy, and the store holds what
\* it fetched; Create after Create (Update runs Create) and Delete after
\* Delete.  The resolvers applied to their own result change nothing.
IdempotentVerbs ==
    /\ ResolverIdempotent
    /\ \A r \in Reconcilers :
          (pc[r] \in {"set", "done"} /\ FetchedOK(r) /\ last[r].verb = Body(verb[r]))
              => /\ pc[r] = "done"
                 /\ Len(calls[r]) = 1
                 /\ ret[r].err = nil
                 /\ remote[mg[r].bucket] = calls[r][1].doc
                 /\ IF Body(verb[r]) = "Create"
                    THEN BindRoleToMember(mg[r], instance[r])
                            = [doc |-> instance[r], changed |-> FALSE]
                    ELSE UnbindRoleFromMember(mg[r], instance[r])
                            = [doc |-> instance[r], changed |-> FALSE]

\* A second Create after one that wrote, and a second Delete after one that wrote.
IdempotentVerbsWitness ==
    \E r \in Reconcilers :
        /\ pc[r] = "done" /\ FetchedOK(r)
        /\ last[r].wrote
        /\ verb[r] = "Delete" /\ last[r].verb = "Delete"

\* C8 as claimed. Round trip: for every fetched policy d and the binding b of
\* the resource, unbinding b from the result of binding b to d gives d's
\* bindings back (up to roles with no member); and a successful Delete after a
\* successful Create, nobody else having written, leaves the bindings the
\* Create had fetched.
RoundTripAlways ==
    \A r \in Reconcilers :
        /\ FetchedOK(r)
              => LET d == calls[r][1].doc
                 IN  Prune(UnbindRoleFromMember(mg[r], BindRoleToMember(mg[r], d).doc).doc.bindings)
                        = Prune(d.bindings)
        /\ (pc[r] = "done" /\ verb[r] = "Delete" /\ FetchedOK(r) /\ ret[r].err = nil
                /\ last[r].verb = "Create")
              => Prune(remote[mg[r].bucket].bindings) = Prune(last[r].before)

\* The round trip of the resolvers over every policy document that does not
\* hold the binding yet.
ResolverRoundTrip ==
    \A d \in AllDocs, in \in AllPairs :
        ~Present(in, d)
            => Prune(UnbindRoleFromMember(in, BindRoleToMember(in, d).doc).doc.bindings)
                  = Prune(d.bindings)

\* C8 as amended. The round trip holds when d does not already hold b, that is
\* when binding b changes d; and a successful Delete after a Create that wrote,
\* nobody else having written, leaves the bindings the Create had fetched.
RoundTripWhenAdded ==
    /\ ResolverRoundTrip
    /\ \A r \in Reconcilers :
          /\ (FetchedOK(r) /\ ~Present(mg[r], calls[r][1].doc))
                => LET d == calls[r][1].doc
                   IN  UnbindRoleFromMember(mg[r], BindRoleToMember(mg[r], d).doc).doc.bindings
                          = d.bindings
          /\ (pc[r] = "done" /\ verb[r] = "Delete" /\ FetchedOK(r) /\ ret[r].err = nil
                  /\ last[r].verb = "Create" /\ last[r].wrote)
                => remote[mg[r].bucket].bindings = last[r].before

RoundTripWhenAddedWitness ==
    \E r \in Reconcilers :
        /\ pc[r] = "done" /\ verb[r] = "Delete" /\ ret[r].err = nil
        /\ Len(calls[r]) = 2 /\ calls[r][2].outcome = "OK"
        /\ last[r].verb = "Create" /\ last[r].wrote

\* C9. Pruned roles: once a verb's SetIamPolicy has succeeded, the store holds
\* the bindings the verb sent, and no role of them is without a member.
PrunedRoles ==
    \A r \in Reconcilers :
        (pc[r] = "done" /\ Len(calls[r]) = 2 /\ calls[r][2].outcome = "OK")
            => LET b == remote[mg[r].bucket].bindings
               IN  /\ b = calls[r][2].doc.bindings
                   /\ \A ro \in DOMAIN b : b[ro] # {}

\* Delete has removed the last member of the role, and the role is gone.
PrunedRolesWitness ==
    \E r \in Reconcilers :
        /\ pc[r] = "done" /\ verb[r] = "Delete"
        /\ Len(calls[r]) = 2 /\ calls[r][2].outcome = "OK"
        /\ calls[r][1].doc.bindings[mg[r].role] = {mg[r].member}
        /\ mg[r].role \notin DOMAIN remote[mg[r].bucket].bindings

\* C10. Update is Create: an Update that has returned has issued the remote
\* calls, with the arguments, that Create issues for the same managed resource
\* and the same answers of the store, and returns the error Create returns.
UpdateIsCreate ==
    \A r \in Reconcilers :
        (pc[r] = "done" /\ verb[r] = "Update")
            => LET n == Len(calls[r])
                   c == Create(mg[r],
                               IF n >= 1 THEN calls[r][1].outcome ELSE "OK",
                               IF n >= 1 THEN calls[r][1].doc ELSE NoDoc,
                               IF n >= 2 THEN calls[r][2].outcome ELSE "OK")
               IN  /\ calls[r] = c.calls
                   /\ ret[r].err = c.ret.err

UpdateIsCreateWitness ==
    \E r \in Reconcilers :
        /\ pc[r] = "done" /\ verb[r] = "Update"
        /\ Len(calls[r]) = 2 /\ calls[r][2].outcome = "PermissionDenied"
        /\ ret[r].err = Wrap("PermissionDenied", errSetPolicy)

\* The stage of a verb's remote call: the verb's body and the call.
Stages ==
    {<<"Observe", "GetIamPolicy">>, <<"Create", "GetIamPolicy">>, <<"Create", "SetIamPolicy">>,
     <<"Delete", "GetIamPolicy">>, <<"Delete", "SetIamPolicy">>}

\* The error verb body v returns when its call op fails with cause.
StageError(v, op, cause) ==
    IF op = "GetIamPolicy"
    THEN Fetched(v, desired("r1"), NoDoc, cause).ret.err
    ELSE Written(v, cause).err

\* The remote call of r's invocation that failed, if one did: its last call.
FailedCall(r) ==
    /\ pc[r] = "done" /\ Len(calls[r]) >= 1
    /\ calls[r][Len(calls[r])].outcome # "OK"

\* C11 as claimed. Stage-identifying errors: the error a verb returns for a
\* failed remote call differs from the error every other stage returns for the
\* same failure, so that the stage can be told from the error alone.
StageFromError ==
    \A r \in Reconcilers :
        FailedCall(r)
            => LET c == calls[r][Len(calls[r])]
               IN  \A s \in Stages \ {<<Body(verb[r]), c.op>>} :
                       ret[r].err # StageError(s[1], s[2], c.outcome)

\* C11 as amended. The error a verb returns for a failed remote call is the
\* store's failure wrapped with errGetPolicy when the fetch failed and with
\* errSetPolicy when the write failed, in every verb alike: it is the error
\* every verb returns for that call and that failure.
CallFromError ==
    \A r \in Reconcilers :
        FailedCall(r)
            => LET c == calls[r][Len(calls[r])]
               IN  /\ ret[r].err =
                         Wrap(c.outcome, IF c.op = "GetIamPolicy" THEN errGetPolicy
                                         ELSE errSetPolicy)
                   /\ \A s \in Stages :
                         s[2] = c.op => ret[r].err = StageError(s[1], s[2], c.outcome)

CallFromErrorWitness ==
    \E r \in Reconcilers :
        /\ FailedCall(r) /\ verb[r] = "Delete"
        /\ Len(calls[r]) = 2 /\ calls[r][2].outcome = "PermissionDenied"
        /\ ret[r].err = StageError("Create", "SetIamPolicy", "PermissionDenied")

\* C12. Type mismatch: a verb called with a managed resource that is not a
\* BucketPolicyMember returns errNotBucketPolicyMember in that very step, with
\* no remote call issued and the store as it was; no verb stands at a remote
\* call with such a resource.
TypeMismatchIsFatal ==
    [][\A r \in Reconcilers :
          /\ (pc[r] = "idle" /\ pc'[r] # "idle" /\ ~TypeAssert(mg'[r]))
                => /\ pc'[r] = "done"
                   /\ calls'[r] = << >>
                   /\ ret'[r].err = New(errNotBucketPolicyMember)
                   /\ remote' = remote
          /\ pc'[r] \in {"get", "set"} => TypeAssert(mg'[r])]_vars

TypeMismatchIsFatalWitness ==
    \E r \in Reconcilers :
        /\ pc[r] = "done" /\ verb[r] = "Delete" /\ mg[r] = Other
        /\ calls[r] = << >>
        /\ ret[r].err = New(errNotBucketPolicyMember)

\* The calls of kind op the invocation of r has issued.
CallsOf(r, op) == {i \in DOMAIN calls[r] : calls[r][i].op = op}

\* C13. No internal retry, no partial application: an invocation of Create,
\* Update or Delete issues at most one GetIamPolicy and at most one
\* SetIamPolicy; a failed fetch ends it with the error returned and no write;
\* a failed write ends it with the error returned; and the step in which a
\* remote call fails leaves the store as it was.
NoRetryNoPartial ==
    [][\A r \in Reconcilers :
          (Body(verb'[r]) \in {"Create", "Delete"})
              => /\ Cardinality(CallsOf(r, "GetIamPolicy")') <= 1
                 /\ Cardinality(CallsOf(r, "SetIamPolicy")') <= 1
                 /\ \A i \in DOMAIN calls'[r] :
                       calls'[r][i].outcome # "OK"
                           => /\ i = Len(calls'[r])
                              /\ pc'[r] = "done"
                              /\ ret'[r].err # nil
                              /\ ret'[r].err.cause = calls'[r][i].outcome
                              /\ (calls'[r][i].op = "GetIamPolicy"
                                     => CallsOf(r, "SetIamPolicy")' = {})
                 /\ (calls'[r] # calls[r] /\ calls'[r][Len(calls'[r])].outcome # "OK")
                       => remote' = remote]_vars

NoRetryNoPartialWitness ==
    \E r \in Reconcilers :
        /\ pc[r] = "done" /\ verb[r] = "Create"
        /\ Len(calls[r]) = 2 /\ calls[r][2].outcome = "RemoteUnavailable"
        /\ remote[mg[r].bucket] = calls[r][1].doc

\* C14. Delete: once Delete has fetched the policy, it returns with no error
\* and no SetIamPolicy when the policy does not hold the member in the role;
\* otherwise it issues one SetIamPolicy, of the fetched policy without the
\* member in that role, and returns no error exactly when the store accepts it.
DeleteBehaviour ==
    \A r \in Reconcilers :
        (verb[r] = "Delete" /\ FetchedOK(r))
            => LET d == calls[r][1].doc
               IN  IF ~Present(mg[r], d)
                   THEN /\ pc[r] = "done" /\ Len(calls[r]) = 1
                        /\ ret[r].err = nil
                   ELSE /\ pc[r] \in {"set", "done"}
                        /\ ~Present(mg[r], instance[r])
                        /\ pc[r] = "done"
                              => /\ Len(calls[r]) = 2
                                 /\ SetCalls(r) = {2}
                                 /\ calls[r][2].doc = instance[r]
                                 /\ (ret[r].err = nil) = (calls[r][2].outcome = "OK")

\* Delete has removed one of the two members of the role: the other stays.
DeleteBehaviourWitness ==
    \E r \in Reconcilers :
        /\ verb[r] = "Delete" /\ pc[r] = "done" /\ FetchedOK(r)
        /\ mg[r].role \in DOMAIN calls[r][1].doc.bindings
        /\ calls[r][1].doc.bindings[mg[r].role] = Members
        /\ Len(calls[r]) = 2 /\ calls[r][2].outcome = "OK"
        /\ mg[r].role \in DOMAIN remote[mg[r].bucket].bindings
        /\ remote[mg[r].bucket].bindings[mg[r].role] = Members \ {mg[r].member}
        /\ ret[r].err = nil

\* The members a policy document holds in a role: none when it has no entry
\* for the role.
MembersOf(doc, role) ==
    IF role \in DOMAIN doc.bindings THEN doc.bindings[role] ELSE {}

\* C15. Create effect and frame: when the fetched policy does not hold the
\* member in the role, Create issues exactly one SetIamPolicy, of a document
\* that is the fetched one with the member added to the role (the role's entry
\* created when there was none): the etag, the other roles' members and the
\* role's other members are those of the fetched document.
CreateEffectAndFrame ==
    \A r \in Reconcilers :
        (Body(verb[r]) = "Create" /\ FetchedOK(r)
                                  /\ ~Present(mg[r], calls[r][1].doc))
            => LET d == calls[r][1].doc
                   s == instance[r]
               IN  /\ pc[r] \in {"set", "done"}
                   /\ s.etag = d.etag
                   /\ DOMAIN s.bindings = DOMAIN d.bindings \cup {mg[r].role}
                   /\ s.bindings[mg[r].role]
                          = MembersOf(d, mg[r].role) \cup {mg[r].member}
                   /\ \A ro \in DOMAIN d.bindings \ {mg[r].role} :
                          s.bindings[ro] = d.bindings[ro]
                   /\ pc[r] = "done"
                          => /\ Len(calls[r]) = 2
                             /\ SetCalls(r) = {2}
                             /\ calls[r][2].doc = s

\* Create has added a role that the fetched policy, at a later etag than the
\* first, had no entry for, beside a role that it had.
CreateEffectAndFrameWitness ==
    \E r \in Reconcilers :
        /\ Body(verb[r]) = "Create" /\ pc[r] = "done" /\ FetchedOK(r)
        /\ calls[r][1].doc.etag > 0
        /\ mg[r].role \notin DOMAIN calls[r][1].doc.bindings
        /\ DOMAIN calls[r][1].doc.bindings # {}
        /\ Len(calls[r]) = 2 /\ calls[r][2].outcome = "OK"
        /\ remote[mg[r].bucket].bindings[mg[r].role] = {mg[r].member}

\* C20. Per-resource isolation: every step of an invocation for a binding on
\* a bucket leaves the policies of all other buckets as they were, every remote
\* call the invocation issues names that bucket, and the step changes nothing
\* of any other invocation.
ResourceIsolation ==
    [][\A r \in Reconcilers :
          pc'[r] # pc[r]
              => LET cr == IF pc[r] = "idle" THEN mg'[r] ELSE mg[r]
                 IN  /\ \A b \in Buckets \ {cr.bucket} : remote'[b] = remote[b]
                     /\ \A i \in DOMAIN calls'[r] : calls'[r][i].bucket = cr.bucket
                     /\ \A q \in Reconcilers \ {r} :
                            /\ pc'[q] = pc[q] /\ verb'[q] = verb[q]
                            /\ mg'[q] = mg[q] /\ instance'[q] = instance[q]
                            /\ calls'[q] = calls[q] /\ ret'[q] = ret[q]]_vars

\* One invocation has written its bucket's policy while another, for another
\* binding, stands between its fetch and its write; the other bucket's policy
\* is the one it held from the start.
ResourceIsolationWitness ==
    \E r, q \in Reconcilers :
        /\ r # q
        /\ pc[r] = "done" /\ Len(calls[r]) = 2 /\ calls[r][2].outcome = "OK"
        /\ pc[q] = "set" /\ Len(calls[q]) = 1
        /\ \E b \in Buckets \ {mg[r].bucket} :
               remote[b] = [etag |-> 0, bindings |-> [viewer |-> {"user:b"}]]

\* The invocation of r has issued a SetIamPolicy that the store answered on
\* the etag alone: it accepted the write or rejected it as stale.
Replaced(r) ==
    /\ pc[r] = "done" /\ FetchedOK(r) /\ Len(calls[r]) = 2
    /\ calls[r][2].outcome \in {"OK", "VersionConflict"}

\* C16. Racing writers: when two reconcilers of different bindings of one
\* bucket have fetched the policy at the same etag and both have issued their
\* SetIamPolicy, one write was accepted and the other rejected with
\* VersionConflict, which the rejected verb returns as its error; the next
\* verb of the rejected reconciler fetches a policy of a later etag than the
\* one it had sent, and, with no write since, the very document the accepted
\* write stored.
RacingWriters ==
    /\ \A r, q \in Reconcilers :
           (/\ r # q /\ Replaced(r) /\ Replaced(q)
            /\ mg[r].bucket = mg[q].bucket
            /\ calls[r][1].doc.etag = calls[q][1].doc.etag)
               => {calls[r][2].outcome, calls[q][2].outcome}
                      = {"OK", "VersionConflict"}
    /\ \A r \in Reconcilers :
           (Replaced(r) /\ calls[r][2].outcome = "VersionConflict")
               => ret[r].err = Wrap("VersionConflict", errSetPolicy)
    /\ \A l \in Reconcilers :
           (FetchedOK(l) /\ last[l].lost >= 0)
               => /\ calls[l][1].doc.etag > last[l].lost
                  /\ \A w \in Reconcilers \ {l} :
                         (/\ Replaced(w) /\ calls[w][2].outcome = "OK"
                          /\ mg[w].bucket = mg[l].bucket
                          /\ calls[w][2].doc.etag = last[l].lost
                          /\ calls[l][1].doc.etag = last[l].lost + 1)
                             => calls[l][1].doc.bindings = calls[w][2].doc.bindings

\* The rejected reconciler has returned and fetched again, while the accepted
\* write's verb has yet to return.
RacingWritersWitness ==
    \E l, w \in Reconcilers :
        /\ l # w
        /\ Replaced(w) /\ calls[w][2].outcome = "OK"
        /\ last[l].lost = calls[w][2].doc.etag
        /\ last[l].lost = calls[w][1].doc.etag
        /\ ret[w].err = nil
        /\ FetchedOK(l) /\ pc[l] = "set"
        /\ calls[l][1].doc.etag = last[l].lost + 1
        /\ calls[l][1].doc.bindings = calls[w][2].doc.bindings

\* C17. No lost update: a SetIamPolicy the store accepts from a reconciler
\* changes, of all (role, member) pairs of the bucket's policy as the store
\* holds it at that moment, none but the reconciler's own: what another
\* reconciler's accepted write added stays, and what it removed stays out.
NoLostUpdate ==
    [][\A r \in Reconcilers :
          (pc[r] = "set" /\ pc'[r] = "done" /\ remote' # remote)
              => \A ro \in Roles, m \in Members :
                     (ro # mg[r].role \/ m # mg[r].member)
                         => (m \in MembersOf(remote'[mg[r].bucket], ro))
                                = (m \in MembersOf(remote[mg[r].bucket], ro))]_vars

\* One reconciler's Create has added its binding.  The other's write was
\* rejected as stale; it has since run Create again and been accepted, its verb
\* has yet to return, and the policy holds what each of the two has added.
NoLostUpdateWitness ==
    \E r, q \in Reconcilers :
        /\ r # q
        /\ last[r].wrote /\ last[r].verb = "Create"
        /\ verb[q] = "Create" /\ Replaced(q) /\ calls[q][2].outcome = "OK"
        /\ last[q].lost >= 0 /\ calls[q][1].doc.etag > last[q].lost
        /\ ~Present(desired(r), [etag |-> 0, bindings |-> last[r].before])
        /\ Present(desired(r), remote[mg[q].bucket])
        /\ Present(desired(q), remote[mg[q].bucket])

\* Observe has returned, with no error, that the resource exists and is up to
\* date.
ObservedUpToDate(r) ==
    /\ pc[r] = "done" /\ verb[r] = "Observe"
    /\ ret[r].err = nil /\ ret[r].exists /\ ret[r].upToDate

\* Observe has returned with no error.
Observed(r) == pc[r] = "done" /\ verb[r] = "Observe" /\ ret[r].err = nil

\* C18. Convergence once contention ends: under the fair loop of Observe and,
\* on drift, Create, with other writers that stop in the end and remote calls
\* that succeed in the end, the policy comes to hold the binding for good,
\* Observe reports exists and up to date again and again, and from some point
\* on every Observe that returns no error reports so.  Until then a binding the
\* policy lacks enters it only by a write the store accepts: a Create whose
\* write is rejected leaves the resource short of up to date.
Convergence ==
    /\ \A r \in LoopReconcilers :
           /\ <>[]Present(desired(r), remote[desired(r).bucket])
           /\ []<>ObservedUpToDate(r)
           /\ <>[](Observed(r) => ObservedUpToDate(r))
    /\ [][\A r \in LoopReconcilers :
             (/\ ~Present(desired(r), remote[desired(r).bucket])
              /\ Present(desired(r), remote'[desired(r).bucket]))
                 => \/ /\ pc[r] = "set" /\ pc'[r] = "done"
                       /\ calls'[r][2].outcome = "OK" /\ ret'[r].err = nil
                    \/ UNCHANGED <<pc, verb, mg, instance, calls, ret>>]_vars
    /\ [](\A r \in LoopReconcilers :
             ObservedUpToDate(r) => Present(desired(r), calls[r][1].doc))

\* The store has handed out its last etag, to other writers and to Create, and
\* Observe reports the resource up to date after a Create that wrote.
ConvergenceWitness ==
    \E r \in LoopReconcilers :
        /\ ObservedUpToDate(r)
        /\ last[r].verb = "Create" /\ last[r].wrote
        /\ remote[desired(r).bucket].etag = MaxEtag

\* Observe has returned, with no error, that the resource does not exist.
ObservedAbsent(r) == Observed(r) /\ ~ret[r].exists

\* C19. Deletion completes: the Observe that follows a successful Delete, with
\* no write of another in between, reports with no error that the resource
\* does not exist; and under the fair loop that calls Delete for as long as
\* Observe reports that it exists, with other writers that stop in the end and
\* remote calls that succeed in the end, Observe comes to report so, again and
\* again, and the policy is without the binding for good.
DeletionCompletes ==
    /\ [](\A r \in LoopReconcilers :
             (/\ last[r].verb = "Delete"
              /\ verb[r] = "Observe" /\ pc[r] = "done" /\ FetchedOK(r))
                 => ObservedAbsent(r))
    /\ \A r \in LoopReconcilers :
           /\ []<>ObservedAbsent(r)
           /\ <>[]~Present(desired(r), remote[desired(r).bucket])

\* Delete has removed the binding from a policy that held it, and the Observe
\* that follows reports that the resource does not exist.
DeletionCompletesWitness ==
    \E r \in LoopReconcilers :
        /\ last[r].verb = "Delete" /\ last[r].wrote
        /\ Present(desired(r), [etag |-> 0, bindings |-> last[r].before])
        /\ ObservedAbsent(r)

====
